---- MODULE Spec2Model ----
(***************************************************************************)
(* Model of app2.py: a Streamlit script that is re-run from top to bottom  *)
(* on every user interaction.  One run = load (cached) -> widgets ->       *)
(* filter -> categorical ordering -> sort -> pivot -> chart -> metrics ->  *)
(* summary table.  pandas semantics are modelled explicitly:               *)
(*   - a value that is not among the categories of a Categorical is NaN;   *)
(*   - DataFrame.pivot raises ValueError on a repeated (index, column);    *)
(*   - x / 0 on a float column is NaN, no exception;                       *)
(*   - sort_values uses the default kind (quicksort), which is not stable: *)
(*     the order of equal keys is a nondeterministic choice.               *)
(***************************************************************************)
EXTENDS Integers, Sequences, FiniteSets, TLC

VARIABLES
    csv,                \* rows of my_data/wiki_cc_subtopics.csv (the file on disk)
    cache,              \* st.cache_data entry of load_data: NotLoaded or the load result
    diskReads,          \* number of times the body of load_data has run
    df,                 \* the global df of the last run (line 27), as left by that run
    subtopic_mapping,   \* the global subtopic_mapping of the last run
    selected_language,  \* value of the language selectbox (a label)
    selected_subtopic,  \* value of the subtopic selectbox
    selected_languages, \* list used for filtering
    selected_subtopics, \* list used for filtering
    sort_option,
    chart_type,
    categories,         \* categories of the Categorical assigned to language_code
    df_filtered,        \* after line 143
    df_wide,            \* after line 148, NoWide if never produced
    df_plot,            \* frame handed to px.bar (with language_name, percentage)
    fig,                \* the chart handed to st.plotly_chart, NoFig if none
    notice,             \* "none", "warning_language", "warning_subtopic", "chart"
    total_articles,     \* the Total Articles metric, NoMetric if not rendered
    summary_df,         \* the detailed breakdown, NoSummary if not produced
    error,              \* "none" or the kind of the uncaught exception
    steps               \* the stages the last run executed, in order

vars == <<csv, cache, diskReads, df, subtopic_mapping, selected_language,
          selected_subtopic, selected_languages, selected_subtopics, sort_option,
          chart_type, categories, df_filtered, df_wide, df_plot, fig, notice,
          total_articles, summary_df, error, steps>>

----------------------------------------------------------------------------
(* Bounds of the model *)

MaxRows == 2
MaxCount == 1
MaxPctCount == 4

(* Universe of the input file *)
Codes == {"en", "xx"}            \* one catalog language, one outside the catalog
CanonicalCodes == {"en", "ar"}   \* catalog order en, ar; alphabetical order ar, en
DataSubtopics == {"Policy", "Science"}
FiveSubtopics == <<"Policy", "Adaptation", "Environment", "Science", "Sustainability">>

NaNCode == "NaN"        \* a missing value in a string/categorical column
NaN == <<>>             \* a missing value in a float column; a number v is <<v>>
Num(v) == <<v>>
NoMetric == <<>>         \* a metric that was never rendered
NotLoaded == [loaded |-> FALSE, df |-> <<>>, subtopic_mapping |-> <<>>]
NoWide == [produced |-> FALSE, index |-> {}, columns |-> {}, cell |-> <<>>]
NoSummary == [produced |-> FALSE, rows |-> <<>>]
NoFig == [drawn |-> FALSE, y |-> "", barmode |-> ""]

----------------------------------------------------------------------------
(* Generic helpers *)

Range(s) == {s[i] : i \in DOMAIN s}

RECURSIVE SumSeq(_)
SumSeq(s) == IF s = <<>> THEN 0 ELSE Head(s) + SumSeq(Tail(s))

RECURSIVE UniqueFrom(_, _, _)
UniqueFrom(s, i, acc) ==
    IF i > Len(s) THEN acc
    ELSE UniqueFrom(s, i + 1, IF s[i] \in Range(acc) THEN acc ELSE Append(acc, s[i]))

\* Series.unique().tolist(): distinct values in first-seen order
Unique(s) == UniqueFrom(s, 1, <<>>)

Column(frame, name) == [i \in DOMAIN frame |-> frame[i][name]]

\* all orderings of a finite set
Orderings(S) ==
    {p \in [1..Cardinality(S) -> S] : \A i, j \in DOMAIN p : p[i] = p[j] => i = j}

IndexOf(s, x) == CHOOSE i \in DOMAIN s : s[i] = x

----------------------------------------------------------------------------
(* Strings as character sequences, for the label format of the selectbox *)

Chars(s) ==
    CASE s = "en" -> <<"e","n">>
      [] s = "ar" -> <<"a","r">>
      [] s = "fr" -> <<"f","r">>
      [] s = "es" -> <<"e","s">>
      [] s = "de" -> <<"d","e">>
      [] s = "pt" -> <<"p","t">>
      [] s = "zh" -> <<"z","h">>
      [] s = "ru" -> <<"r","u">>
      [] s = "uk" -> <<"u","k">>
      [] s = "it" -> <<"i","t">>
      [] s = "xx" -> <<"x","x">>
      [] s = "yy" -> <<"y","y">>
      [] s = "English" -> <<"E","n","g","l","i","s","h">>
      [] s = "Arabic" -> <<"A","r","a","b","i","c">>
      [] s = "French" -> <<"F","r","e","n","c","h">>
      [] s = "Spanish" -> <<"S","p","a","n","i","s","h">>
      [] s = "German" -> <<"G","e","r","m","a","n">>
      [] s = "Portuguese" -> <<"P","o","r","t","u","g","u","e","s","e">>
      [] s = "Chinese" -> <<"C","h","i","n","e","s","e">>
      [] s = "Russian" -> <<"R","u","s","s","i","a","n">>
      [] s = "Ukrainian" -> <<"U","k","r","a","i","n","i","a","n">>
      [] s = "Italian" -> <<"I","t","a","l","i","a","n">>

CodeStrings == {"en","ar","fr","es","de","pt","zh","ru","uk","it","xx","yy"}

\* the string whose characters are cs
FromChars(cs) == CHOOSE s \in CodeStrings : Chars(s) = cs

RECURSIVE SplitFrom(_, _, _, _, _)
\* pieces: the finished pieces; cur: the piece being read
SplitFrom(s, sep, i, pieces, cur) ==
    IF i > Len(s) THEN Append(pieces, cur)
    ELSE IF s[i] = sep THEN SplitFrom(s, sep, i + 1, Append(pieces, cur), <<>>)
    ELSE SplitFrom(s, sep, i + 1, pieces, Append(cur, s[i]))

\* str.split(sep) for a one-character separator
Split(s, sep) == SplitFrom(s, sep, 1, <<>>, <<>>)

----------------------------------------------------------------------------
(* Configuration of the script *)

lang_map ==
    [c \in {"en","ar","fr","es","de","pt","zh","ru","uk","it"} |->
        CASE c = "en" -> "English"
          [] c = "ar" -> "Arabic"
          [] c = "fr" -> "French"
          [] c = "es" -> "Spanish"
          [] c = "de" -> "German"
          [] c = "pt" -> "Portuguese"
          [] c = "zh" -> "Chinese"
          [] c = "ru" -> "Russian"
          [] c = "uk" -> "Ukrainian"
          [] c = "it" -> "Italian"]

top10_langs == <<"en", "ar", "fr", "es", "de", "pt", "zh", "ru", "uk", "it">>

AllLanguages == <<"A","l","l"," ","L","a","n","g","u","a","g","e","s">>
AllSubtopics == "All Subtopics"

SortOptions ==
    <<"Default Order", "Total Articles (Descending)", "Total Articles (Ascending)">>
ChartOptions == <<"Stacked Bar", "Grouped Bar", "Percentage Stacked">>

\* lang_map.get(x, x)
LangMapGet(x) == IF x \in DOMAIN lang_map THEN lang_map[x] ELSE x

\* f"{lang_map.get(x, x)} ({x})"
Label(x) == Chars(LangMapGet(x)) \o <<" ", "(">> \o Chars(x) \o <<")">>

\* the keyword mapping file; contents are only displayed
MappingFile ==
    [s \in DataSubtopics |-> [c \in {"en", "ar"} |-> <<"kw">>]]

----------------------------------------------------------------------------
(* 1. Loader *)

\* pd.read_csv: the rows of the file under a RangeIndex
ReadCsv(file) ==
    [i \in DOMAIN file |->
        [idx |-> i - 1, language_code |-> file[i].language_code,
         subtopic |-> file[i].subtopic, article_count |-> file[i].article_count]]

\* a variant of LoadData without the cache decorator: every run reads the disk
LoadDataUncached(c, file) ==
    [cache |-> [loaded |-> TRUE, df |-> ReadCsv(file), subtopic_mapping |-> MappingFile],
     reads |-> 1, df |-> ReadCsv(file), subtopic_mapping |-> MappingFile]

\* @st.cache_data load_data(): the body runs on a miss only; every caller gets
\* its own copy of the cached value
LoadData(c, file) ==
    IF c.loaded
    THEN [cache |-> c, reads |-> 0, df |-> c.df, subtopic_mapping |-> c.subtopic_mapping]
    ELSE [cache |-> [loaded |-> TRUE, df |-> ReadCsv(file),
                     subtopic_mapping |-> MappingFile],
          reads |-> 1, df |-> ReadCsv(file), subtopic_mapping |-> MappingFile]

----------------------------------------------------------------------------
(* 2. Selector *)

AvailableLanguages(d) == Unique(Column(d, "language_code"))
AvailableSubtopics(d) == Unique(Column(d, "subtopic"))

LanguageOptions(d) ==
    <<AllLanguages>> \o [i \in DOMAIN AvailableLanguages(d) |-> Label(AvailableLanguages(d)[i])]
SubtopicOptions(d) == <<AllSubtopics>> \o AvailableSubtopics(d)

\* selected_language.split('(')[1].split(')')[0]
ExtractCode(label) == FromChars(Split(Split(label, "(")[2], ")")[1])

SelectedLanguages(sel, d) ==
    IF sel = AllLanguages THEN AvailableLanguages(d) ELSE <<ExtractCode(sel)>>

SelectedSubtopics(sel, d) ==
    IF sel = AllSubtopics THEN AvailableSubtopics(d) ELSE <<sel>>

----------------------------------------------------------------------------
(* 3. Transformer *)

\* df[isin & isin].copy(): a new frame, rows in file order
FilterRows(d, langs, subs) ==
    SelectSeq(d, LAMBDA r : r.language_code \in Range(langs) /\ r.subtopic \in Range(subs))

\* groupby('language_code')['article_count'].sum(), one group
LangTotal(frame, key) ==
    SumSeq([i \in DOMAIN frame |->
              IF frame[i].language_code = key THEN frame[i].article_count ELSE 0])

GroupKeys(frame) == Range(Column(frame, "language_code")) \ {NaNCode}

\* a variant of TotalOrderings that ignores the requested direction
TotalOrderingsAscendingOnly(frame, ascending) ==
    {p \in Orderings(GroupKeys(frame)) :
        \A i, j \in DOMAIN p : i < j => LangTotal(frame, p[i]) <= LangTotal(frame, p[j])}

\* .sort_values(ascending=...).index.tolist(): quicksort, so equal totals may
\* come out in any order
TotalOrderings(frame, ascending) ==
    {p \in Orderings(GroupKeys(frame)) :
        \A i, j \in DOMAIN p : i < j =>
            IF ascending THEN LangTotal(frame, p[i]) <= LangTotal(frame, p[j])
                         ELSE LangTotal(frame, p[i]) >= LangTotal(frame, p[j])}

\* the if / elif / else on sort_option: the possible category lists
CategoriesFor(so, frame, langs) ==
    IF so = "Total Articles (Descending)" THEN TotalOrderings(frame, FALSE)
    ELSE IF so = "Total Articles (Ascending)" THEN TotalOrderings(frame, TRUE)
    ELSE {SelectSeq(top10_langs, LAMBDA l : l \in Range(langs))}

\* pd.Categorical(values, categories=cats): a value outside cats becomes NaN
AssignCategorical(frame, cats) ==
    [i \in DOMAIN frame |->
        [frame[i] EXCEPT !.language_code =
            IF @ \in Range(cats) THEN @ ELSE NaNCode]]

\* the keys of the sorted frame in order: categories that occur, NaN last
SortedKeys(frame, cats) ==
    LET present == Range(Column(frame, "language_code"))
    IN SelectSeq(cats, LAMBDA c : c \in present)
          \o (IF NaNCode \in present THEN <<NaNCode>> ELSE <<>>)

\* a variant of SortValues that drops the rows whose key is NaN
SortValuesDropNa(frame, cats) ==
    LET keys == SelectSeq(cats, LAMBDA c : c \in GroupKeys(frame))
        rowset == Range(frame)
    IN [k \in DOMAIN keys |-> {r \in rowset : r.language_code = keys[k]}]

\* df_filtered.sort_values('language_code'): rows ordered by category rank, NaN
\* last.  The relative order of rows with the same key is not fixed by the
\* sort (quicksort), so the result is the sequence of key groups, each an
\* unordered set of rows (rows are told apart by idx).
SortValues(frame, cats) ==
    LET keys == SortedKeys(frame, cats)
        rowset == Range(frame)
    IN [k \in DOMAIN keys |-> {r \in rowset : r.language_code = keys[k]}]

Rows(groups) == UNION Range(groups)

HasDuplicates(rowset) ==
    \E r1, r2 \in rowset :
        /\ r1.idx # r2.idx
        /\ r1.language_code = r2.language_code
        /\ r1.subtopic = r2.subtopic

CellRows(rowset, l, s) == {r \in rowset : r.language_code = l /\ r.subtopic = s}

\* a variant of Pivot that keeps the last row of a repeated pair
PivotLastWins(groups) ==
    LET rowset == Rows(groups)
        index == {r.language_code : r \in rowset}
        columns == {r.subtopic : r \in rowset}
    IN [raised |-> FALSE,
        frame |-> [produced |-> TRUE, index |-> index, columns |-> columns,
                   cell |-> [c \in index \X columns |->
                       IF CellRows(rowset, c[1], c[2]) = {} THEN 0
                       ELSE (CHOOSE r \in CellRows(rowset, c[1], c[2]) :
                               \A q \in CellRows(rowset, c[1], c[2]) : q.idx <= r.idx
                            ).article_count]]]

\* df_filtered.pivot(index, columns, values).fillna(0): ValueError ("Index
\* contains duplicate entries") on a repeated (index, column) pair, NaN keys
\* included; otherwise one row per key, one column per subtopic, 0 where absent
Pivot(groups) ==
    LET rowset == Rows(groups)
        index == {r.language_code : r \in rowset}
        columns == {r.subtopic : r \in rowset}
    IN IF HasDuplicates(rowset)
       THEN [raised |-> TRUE, frame |-> NoWide]
       ELSE [raised |-> FALSE,
             frame |-> [produced |-> TRUE, index |-> index, columns |-> columns,
                        cell |-> [c \in index \X columns |->
                            IF CellRows(rowset, c[1], c[2]) = {} THEN 0
                            ELSE (CHOOSE r \in CellRows(rowset, c[1], c[2]) : TRUE
                                 ).article_count]]]

RECURSIVE SumCounts(_)
\* Series.sum() of article_count over a set of rows
SumCounts(rowset) ==
    IF rowset = {} THEN 0
    ELSE LET r == CHOOSE x \in rowset : TRUE
         IN r.article_count + SumCounts(rowset \ {r})

\* round-half-to-even of n / d for n >= 0, d > 0 (numpy rint)
RoundHalfEven(n, d) ==
    LET q == n \div d
        r == n % d
    IN IF 2 * r < d THEN q
       ELSE IF 2 * r > d THEN q + 1
       ELSE IF q % 2 = 0 THEN q ELSE q + 1

\* a variant of Percentage that truncates instead of rounding
PercentageTruncated(count, total) ==
    IF total = NaN THEN NaN
    ELSE IF total[1] = 0 THEN NaN
    ELSE Num((1000 * count) \div total[1])

\* (article_count / totals * 100).round(1), in tenths of a percent: NaN when
\* the total is NaN and when it is 0 (0 / 0 on floats)
Percentage(count, total) ==
    IF total = NaN THEN NaN
    ELSE IF total[1] = 0 THEN NaN
    ELSE Num(RoundHalfEven(1000 * count, total[1]))

\* groupby('language_code')['article_count'].transform('sum') for the rows of
\* one key: rows whose key is NaN belong to no group and get NaN
TransformSum(key, rowset) ==
    IF key = NaNCode THEN NaN ELSE Num(SumCounts(rowset))

\* the key shared by the rows of one group of a sorted frame
KeyOf(rowset) == (CHOOSE r \in rowset : TRUE).language_code

\* df_plot['language_code'].map(lang_map): NaN where the dict has no entry
MapLangName(code) == IF code \in DOMAIN lang_map THEN lang_map[code] ELSE NaNCode

\* df_plot for the bar charts on article_count
PlotFrame(groups) ==
    [k \in DOMAIN groups |->
        {[idx |-> r.idx, language_code |-> r.language_code, subtopic |-> r.subtopic,
          article_count |-> r.article_count,
          language_name |-> MapLangName(r.language_code)] : r \in groups[k]}]

\* df_plot for the percentage chart
PlotFramePercentage(groups) ==
    [k \in DOMAIN groups |->
        LET totals == TransformSum(KeyOf(groups[k]), groups[k])
        IN {[idx |-> r.idx, language_code |-> r.language_code, subtopic |-> r.subtopic,
             article_count |-> r.article_count,
             language_name |-> MapLangName(r.language_code),
             percentage |-> Percentage(r.article_count, totals)] : r \in groups[k]}]

\* the if / elif / else on chart_type
ChartFor(ct, groups) ==
    IF ct = "Stacked Bar"
    THEN [df_plot |-> PlotFrame(groups),
          fig |-> [drawn |-> TRUE, y |-> "article_count", barmode |-> "stack"]]
    ELSE IF ct = "Grouped Bar"
    THEN [df_plot |-> PlotFrame(groups),
          fig |-> [drawn |-> TRUE, y |-> "article_count", barmode |-> "group"]]
    ELSE [df_plot |-> PlotFramePercentage(groups),
          fig |-> [drawn |-> TRUE, y |-> "percentage", barmode |-> "stack"]]

\* df_filtered['article_count'].sum()
TotalArticles(groups) == Num(SumCounts(Rows(groups)))

\* df_filtered.pivot_table(index, columns, values, fill_value=0) plus the Total
\* column and the relabelled index.  Rows whose key is NaN are dropped by the
\* grouping; it is only reached after pivot succeeded, so every cell averages
\* at most one value.
SummaryTable(groups, cats) ==
    LET rowset == {r \in Rows(groups) : r.language_code # NaNCode}
        keys == SelectSeq(cats, LAMBDA c : c \in {r.language_code : r \in rowset})
        columns == {r.subtopic : r \in rowset}
    IN [produced |-> TRUE,
        rows |-> [k \in DOMAIN keys |->
            [label |-> Label(keys[k]),
             cells |-> [s \in columns |-> SumCounts(CellRows(rowset, keys[k], s))],
             Total |-> SumCounts({r \in rowset : r.language_code = keys[k]})]]]

----------------------------------------------------------------------------
(* One run of the script *)

\* pandas' ValueError "Index contains duplicate entries, cannot reshape",
\* uncaught, so Streamlit shows it and the run ends
DuplicateKeyError == "DuplicateKeyError"

StepsRaised == <<"load_data", "widgets", "filter", "sort", "pivot">>
StepsWarning ==
    <<"load_data", "widgets", "filter", "sort", "pivot", "warning", "metrics", "summary">>
StepsChart ==
    <<"load_data", "widgets", "filter", "sort", "pivot", "chart", "metrics", "summary">>

\* lines 154-158: which branch of the emptiness check is taken
NoticeFor(langs, subs) ==
    IF Len(langs) = 0 THEN "warning_language"
    ELSE IF Len(subs) = 0 THEN "warning_subtopic"
    ELSE "chart"

\* the state a run leaves behind, from the values it computed
Finish(ld, sl, ss, so, ct, langs, subs, cats, groups, piv) ==
    /\ cache' = ld.cache
    /\ diskReads' = diskReads + ld.reads
    /\ df' = ld.df
    /\ subtopic_mapping' = ld.subtopic_mapping
    /\ selected_language' = sl
    /\ selected_subtopic' = ss
    /\ selected_languages' = langs
    /\ selected_subtopics' = subs
    /\ sort_option' = so
    /\ chart_type' = ct
    /\ categories' = cats
    /\ df_filtered' = groups
    /\ df_wide' = piv.frame
    /\ IF piv.raised
       THEN /\ error' = DuplicateKeyError
            /\ notice' = "none"
            /\ df_plot' = <<>>
            /\ fig' = NoFig
            /\ total_articles' = NoMetric
            /\ summary_df' = NoSummary
            /\ steps' = StepsRaised
       ELSE /\ error' = "none"
            /\ notice' = NoticeFor(langs, subs)
            /\ \E chart \in {ChartFor(ct, groups)} :
                 /\ df_plot' = IF NoticeFor(langs, subs) = "chart" THEN chart.df_plot ELSE <<>>
                 /\ fig' = IF NoticeFor(langs, subs) = "chart" THEN chart.fig ELSE NoFig
            /\ total_articles' = TotalArticles(groups)
            /\ summary_df' = SummaryTable(groups, cats)
            /\ steps' = IF NoticeFor(langs, subs) = "chart" THEN StepsChart ELSE StepsWarning
    /\ UNCHANGED csv

\* the whole script, lines 27-289, for the widget values sl, ss, so, ct; each
\* statement's value is computed once, in program order
Cycle(sl, ss, so, ct) ==
    \E ld \in {LoadData(cache, csv)} :
    \E langs \in {SelectedLanguages(sl, ld.df)} :
    \E subs \in {SelectedSubtopics(ss, ld.df)} :
    \E filtered \in {FilterRows(ld.df, langs, subs)} :
    \E cats \in CategoriesFor(so, filtered, langs) :
    \E groups \in {SortValues(AssignCategorical(filtered, cats), cats)} :
    \E piv \in {Pivot(groups)} :
        Finish(ld, sl, ss, so, ct, langs, subs, cats, groups, piv)

CsvRow(codes) ==
    [language_code : codes, subtopic : DataSubtopics, article_count : 0..MaxCount]

InitRun ==
    /\ cache = NotLoaded
    /\ diskReads = 0
    /\ df = <<>>
    /\ subtopic_mapping = <<>>
    /\ selected_language = AllLanguages
    /\ selected_subtopic = AllSubtopics
    /\ selected_languages = <<>>
    /\ selected_subtopics = <<>>
    /\ sort_option = "Default Order"
    /\ chart_type = "Stacked Bar"
    /\ categories = <<>>
    /\ df_filtered = <<>>
    /\ df_wide = NoWide
    /\ df_plot = <<>>
    /\ fig = NoFig
    /\ notice = "none"
    /\ total_articles = NoMetric
    /\ summary_df = NoSummary
    /\ error = "none"
    /\ steps = <<>>

\* the process starts with any input file of at most MaxRows rows
InitWith(codes) ==
    /\ csv \in UNION {[1..n -> CsvRow(codes)] : n \in 0..MaxRows}
    /\ InitRun

Init == InitWith(Codes)

\* the page is opened: every widget shows its first option (index=0)
FirstRun ==
    /\ steps = <<>>
    /\ Cycle(AllLanguages, AllSubtopics, SortOptions[1], ChartOptions[1])

\* the user picks another entry of a widget; Streamlit keeps the values of the
\* other widgets and re-runs the script
ChangeLanguage ==
    /\ steps # <<>>
    /\ \E sl \in Range(LanguageOptions(df)) \ {selected_language} :
         Cycle(sl, selected_subtopic, sort_option, chart_type)

ChangeSubtopic ==
    /\ steps # <<>>
    /\ \E ss \in Range(SubtopicOptions(df)) \ {selected_subtopic} :
         Cycle(selected_language, ss, sort_option, chart_type)

ChangeChartType ==
    /\ steps # <<>>
    /\ \E ct \in Range(ChartOptions) \ {chart_type} :
         Cycle(selected_language, selected_subtopic, sort_option, ct)

ChangeSortOption ==
    /\ steps # <<>>
    /\ \E so \in Range(SortOptions) \ {sort_option} :
         Cycle(selected_language, selected_subtopic, so, chart_type)

Next ==
    \/ FirstRun
    \/ ChangeLanguage
    \/ ChangeSubtopic
    \/ ChangeChartType
    \/ ChangeSortOption

Spec == Init /\ [][Next]_vars

\* the same program on files whose languages are all in the catalog
InitCanonical == InitWith(CanonicalCodes)

SpecCanonical == InitCanonical /\ [][Next]_vars

----------------------------------------------------------------------------
(* The percentage derivation on one language with all five subtopics *)

PctLanguages == {"es", "xx"}

InitPct ==
    /\ \E l \in PctLanguages, c \in [1..Len(FiveSubtopics) -> 0..MaxPctCount] :
         csv = [i \in 1..Len(FiveSubtopics) |->
                  [language_code |-> l, subtopic |-> FiveSubtopics[i],
                   article_count |-> c[i]]]
    /\ InitRun

NextPct ==
    \/ FirstRun
    \/ ChangeChartType

SpecPct == InitPct /\ [][NextPct]_vars

----------------------------------------------------------------------------
(* The branch logic on option strings, recognised or not *)

OtherSortOption == "Alphabetical"
OtherChartType == "Pie"

\* a run whose sort_option is an arbitrary string
SupplySortOption ==
    /\ steps # <<>>
    /\ \E so \in (Range(SortOptions) \cup {OtherSortOption}) \ {sort_option} :
         Cycle(selected_language, selected_subtopic, so, chart_type)

\* a run whose chart_type is an arbitrary string
SupplyChartType ==
    /\ steps # <<>>
    /\ \E ct \in (Range(ChartOptions) \cup {OtherChartType}) \ {chart_type} :
         Cycle(selected_language, selected_subtopic, sort_option, ct)

NextAnyOption ==
    \/ FirstRun
    \/ ChangeLanguage
    \/ ChangeSubtopic
    \/ SupplySortOption
    \/ SupplyChartType

SpecAnyOption == Init /\ [][NextAnyOption]_vars

----------------------------------------------------------------------------
(* Reference values, computed from the loaded records and the selection *)

Ran == steps # <<>>

Passes(r) ==
    /\ r.language_code \in Range(selected_languages)
    /\ r.subtopic \in Range(selected_subtopics)

FilteredRecords == {r \in Range(df) : Passes(r)}

FilteredLanguages == {r.language_code : r \in FilteredRecords}

ExpectedTotal(l) == SumCounts({r \in FilteredRecords : r.language_code = l})

\* the keys of the sorted frame, in row order
LanguageAxis == [k \in DOMAIN df_filtered |-> KeyOf(df_filtered[k])]

TotalModes == {"Total Articles (Descending)", "Total Articles (Ascending)"}

Abs(x) == IF x < 0 THEN -x ELSE x

RECURSIVE SumPercentages(_)
SumPercentages(rowset) ==
    IF rowset = {} THEN 0
    ELSE LET r == CHOOSE x \in rowset : TRUE
         IN r.percentage[1] + SumPercentages(rowset \ {r})

PercentageDrawn == fig.drawn /\ fig.y = "percentage"

----------------------------------------------------------------------------
(* C1 *)

\* C1: for a record set without repeated (language_code, subtopic) pairs and a
\* non-empty selection, the run produces a WideFrame whose rows are exactly the
\* filtered languages, whose columns are the filtered subtopics, and whose cell
\* (l, s) is the article_count of the filtered record (l, s), 0 if there is none.
C1_PivotExact ==
    (Ran /\ ~HasDuplicates(Range(df))
         /\ selected_languages # <<>> /\ selected_subtopics # <<>>) =>
        /\ error = "none"
        /\ df_wide.produced
        /\ df_wide.index = FilteredLanguages
        /\ df_wide.columns = {r.subtopic : r \in FilteredRecords}
        /\ \A l \in df_wide.index, s \in df_wide.columns :
              df_wide.cell[<<l, s>>] = SumCounts(CellRows(FilteredRecords, l, s))

----------------------------------------------------------------------------
(* C2 *)

\* C2: whenever two filtered records share a (language_code, subtopic) pair the
\* run ends with the duplicate-key error and produces no WideFrame, no chart,
\* no metric and no summary table, in every sort mode and chart mode.
C2_DuplicatesRaise ==
    (Ran /\ HasDuplicates(FilteredRecords)) =>
        /\ error = DuplicateKeyError
        /\ ~df_wide.produced
        /\ ~summary_df.produced
        /\ ~fig.drawn
        /\ total_articles = NoMetric

\* a run on duplicated records in a sort mode and chart mode other than the first
C2_Witness ==
    /\ Ran
    /\ HasDuplicates(FilteredRecords)
    /\ error = DuplicateKeyError
    /\ sort_option = "Total Articles (Ascending)"
    /\ chart_type = "Percentage Stacked"

----------------------------------------------------------------------------
(* C3 *)

\* C3: with an empty language or subtopic selection the run shows the "select
\* at least one" notice, raises nothing, draws no chart, and has not run the
\* sort and pivot steps (no WideFrame exists).
C3_ShortCircuit ==
    (Ran /\ (selected_languages = <<>> \/ selected_subtopics = <<>>)) =>
        /\ notice \in {"warning_language", "warning_subtopic"}
        /\ error = "none"
        /\ ~fig.drawn
        /\ ~df_wide.produced
        /\ \A i \in DOMAIN steps : steps[i] \notin {"sort", "pivot"}

----------------------------------------------------------------------------
(* C4 *)

\* the order C4 states: the catalog sequence restricted to the languages with
\* filtered records, then the other selected languages in first-seen order
ExpectedDefaultOrder ==
    SelectSeq(top10_langs, LAMBDA l : l \in FilteredLanguages)
      \o SelectSeq(selected_languages,
                   LAMBDA l : l \notin Range(top10_langs) /\ l \in FilteredLanguages)

\* C4: in Default Order, on records without repeated pairs, the language axis
\* of the sorted frame and the rows of the summary table follow
\* ExpectedDefaultOrder; no language with filtered records is missing.
C4_DefaultOrder ==
    (Ran /\ sort_option = "Default Order" /\ ~HasDuplicates(Range(df))) =>
        /\ LanguageAxis = ExpectedDefaultOrder
        /\ summary_df.produced
        /\ [k \in DOMAIN summary_df.rows |-> summary_df.rows[k].label]
              = [k \in DOMAIN ExpectedDefaultOrder |-> Label(ExpectedDefaultOrder[k])]

----------------------------------------------------------------------------
(* C5 *)

SortedByTotal ==
    \A i, j \in DOMAIN categories : i < j =>
        IF sort_option = "Total Articles (Descending)"
        THEN ExpectedTotal(categories[i]) >= ExpectedTotal(categories[j])
        ELSE ExpectedTotal(categories[i]) <= ExpectedTotal(categories[j])

TiesInCatalogOrder ==
    \A i, j \in DOMAIN categories :
        (i < j /\ ExpectedTotal(categories[i]) = ExpectedTotal(categories[j])) =>
            IndexOf(top10_langs, categories[i]) < IndexOf(top10_langs, categories[j])

TiesInFirstSeenOrder ==
    \A i, j \in DOMAIN categories :
        (i < j /\ ExpectedTotal(categories[i]) = ExpectedTotal(categories[j])) =>
            IndexOf(AvailableLanguages(df), categories[i])
                < IndexOf(AvailableLanguages(df), categories[j])

\* C5 as stated: in the two total modes the languages are ordered by their
\* filtered total and languages with equal totals keep their original order
\* (read as the catalog order, or as the first-seen order of the records).
C5_StableTies ==
    (Ran /\ sort_option \in TotalModes) =>
        /\ SortedByTotal
        /\ TiesInCatalogOrder \/ TiesInFirstSeenOrder

\* C5 amended: in the two total modes the ordering lists exactly the languages
\* with filtered records, each once, by non-increasing (Descending) or
\* non-decreasing (Ascending) total over the filtered records, and the sorted
\* frame follows it; nothing is said about languages with equal totals.
C5_OrderedByTotal ==
    (Ran /\ sort_option \in TotalModes) =>
        /\ Range(categories) = FilteredLanguages
        /\ Len(categories) = Cardinality(FilteredLanguages)
        /\ SortedByTotal
        /\ LanguageAxis = categories

\* two languages with equal totals listed against the catalog order
C5_Witness ==
    /\ Ran
    /\ sort_option = "Total Articles (Descending)"
    /\ categories = <<"ar", "en">>
    /\ ExpectedTotal("ar") = ExpectedTotal("en")
    /\ ExpectedTotal("en") > 0

----------------------------------------------------------------------------
(* C6 *)

\* C6: in the percentage chart every row of a language whose filtered total is
\* zero has percentage 0.
C6_ZeroTotalIsZero ==
    PercentageDrawn =>
        \A k \in DOMAIN df_plot : \A r \in df_plot[k] :
            ExpectedTotal(df[r.idx + 1].language_code) = 0 => r.percentage = Num(0)

----------------------------------------------------------------------------
(* C7 *)

\* the groups of the plotted frame that still carry a language code and have a
\* non-zero total
PercentGroups ==
    {k \in DOMAIN df_plot :
        KeyOf(df_plot[k]) # NaNCode /\ SumCounts(df_plot[k]) # 0}

----------------------------------------------------------------------------
(* C8 *)

InvalidOptionError == "InvalidOptionError"

----------------------------------------------------------------------------
(* C9 *)

\* C9: every run that does not raise renders a Total Articles metric equal to
\* the sum of article_count over the loaded records that pass the filter, and
\* a run renders no other metric.
C9_TotalMetric ==
    /\ (Ran /\ error = "none") => total_articles = Num(SumCounts(FilteredRecords))
    /\ total_articles # NoMetric => total_articles = Num(SumCounts(FilteredRecords))

\* a run in which the ordering step turned a language code into NaN and the
\* rows of that language still count
C9_Witness ==
    /\ Ran
    /\ error = "none"
    /\ NaNCode \in Range(LanguageAxis)
    /\ \E r \in FilteredRecords : r.language_code = "xx" /\ r.article_count > 0
    /\ total_articles = Num(SumCounts(FilteredRecords))

----------------------------------------------------------------------------
(* C10 *)

\* C10: once loaded, the cached records and keyword mapping never change, the
\* disk is not read again, and every later run starts from the cached values.
C10_LoadedOnce ==
    [][cache.loaded =>
          /\ cache' = cache
          /\ diskReads' = diskReads
          /\ diskReads = 1
          /\ df' = cache.df
          /\ subtopic_mapping' = cache.subtopic_mapping]_vars

\* a later run (a widget left its first option) that re-coded its copy of the
\* records while the loaded records are those of the file
C10_Witness ==
    /\ Ran
    /\ diskReads = 1
    /\ chart_type # ChartOptions[1]
    /\ NaNCode \in Range(LanguageAxis)
    /\ df = ReadCsv(csv)
    /\ cache.df = ReadCsv(csv)

====
